---------------------------- MODULE Spec2Model ----------------------------
(* A model of rustar-cli's `add-job` invocation: client construction from  *)
(* the environment, the interactive field collection, the assembly of the  *)
(* JobRequestDTO and its single POST, together with the text conversions   *)
(* the flow relies on (date/time parsing, trimming, number parsing).       *)
(* Text that the program inspects character by character is a sequence of  *)
(* one-character strings; text it only copies or concatenates is a string. *)
EXTENDS Integers, Sequences, FiniteSets, TLC

VARIABLES
    pc,            \* position of main: the phase the invocation is in
    trace,         \* the phases entered so far, in order
    procEnv,       \* the process environment (API_BASE_URL, API_TIMEOUT_SECONDS)
    dotEnv,        \* the same two variables as given by a .env file
    client,        \* the ApiClient of main, None until constructed
    shown,         \* the prompts shown to the operator so far, in order
    date,          \* get_datetime_input's local `date`
    sat_name,      \* get_tle_input's local `sat_name`
    tle_line1,     \* get_tle_input's local `tle_line1`
    input,         \* the UserInput under construction in collect_job_info
    job,           \* submit_job's JobRequestDTO, None until assembled
    posts,         \* the POST requests put on the wire, in order
    reply,         \* what the network did with the POST, None if none was sent
    accepted,      \* the remote API processed a POST and answered 2xx
    response,      \* the ApiResponse add_job returned, None if none
    stderr,        \* what main printed on standard error, None if nothing
    exitCode,      \* the process exit code, None while running
    date_str,      \* parser harness: the date given to parse_user_datetime
    time_str,      \* parser harness: the time given to parse_user_datetime
    parsed         \* parser harness: what parse_user_datetime returned

vars == <<pc, trace, procEnv, dotEnv, client, shown, date, sat_name, tle_line1,
          input, job, posts, reply, accepted, response, stderr, exitCode,
          date_str, time_str, parsed>>

mainVars == <<pc, trace, procEnv, dotEnv, client, shown, date, sat_name,
              tle_line1, input, job, posts, reply, accepted, response, stderr,
              exitCode>>

parserVars == <<date_str, time_str, parsed>>

\* Option values: None, or Some(v).
None == [some |-> FALSE]
Some(v) == [some |-> TRUE, v |-> v]

\* An absent JSON field.
NoValue == "<none>"

---------------------------------------------------------------------------
(* Bounds of the enumerated inputs. *)

MaxDateLen == 5
MaxTimeLen == 5
MaxEnvLen == 2

---------------------------------------------------------------------------
(* Characters and results. *)

Digits == {"0", "1", "2", "3", "4", "5", "6", "7", "8", "9"}

DigitVal(c) ==
    CASE c = "0" -> 0 [] c = "1" -> 1 [] c = "2" -> 2 [] c = "3" -> 3
      [] c = "4" -> 4 [] c = "5" -> 5 [] c = "6" -> 6 [] c = "7" -> 7
      [] c = "8" -> 8 [] c = "9" -> 9

IsSpace(c) == c \in {" ", "\t"}

Ok(v) == [ok |-> TRUE, val |-> v]
Err(kind) == [ok |-> FALSE, err |-> kind]

\* All sequences over alphabet A of length at most n.
RECURSIVE SeqsUpTo(_, _)
SeqsUpTo(A, n) ==
    IF n = 0 THEN {<<>>}
    ELSE LET shorter == SeqsUpTo(A, n - 1)
         IN shorter \cup {Append(s, c) : s \in shorter, c \in A}

\* str::trim_start
RECURSIVE trim_start(_)
trim_start(s) ==
    IF s # <<>> /\ IsSpace(Head(s)) THEN trim_start(Tail(s)) ELSE s

\* str::trim_end
RECURSIVE trim_end(_)
trim_end(s) ==
    IF s # <<>> /\ IsSpace(s[Len(s)]) THEN trim_end(SubSeq(s, 1, Len(s) - 1)) ELSE s

\* str::trim
trim(s) == trim_end(trim_start(s))

\* The number of leading ASCII digits of s, at most max.
RECURSIVE LeadDigits(_, _)
LeadDigits(s, max) ==
    IF max = 0 \/ s = <<>> \/ Head(s) \notin Digits THEN 0
    ELSE 1 + LeadDigits(Tail(s), max - 1)

\* The decimal value of a sequence of digits.
RECURSIVE DecVal(_)
DecVal(ds) ==
    IF ds = <<>> THEN 0 ELSE 10 * DecVal(SubSeq(ds, 1, Len(ds) - 1)) + DigitVal(ds[Len(ds)])

---------------------------------------------------------------------------
(* chrono's strftime-driven parsing, as used with "%Y-%m-%d" and           *)
(* "%H:%M:%S": a numeric item skips leading whitespace and takes between   *)
(* one and `width` digits (a signed year takes any number of digits after  *)
(* an explicit sign); a literal must match exactly; nothing may be left.   *)

\* scan::number(s, 1, max): the value and the rest, or an error.
scan_number(s, max) ==
    LET k == LeadDigits(s, max)
    IN IF k = 0 THEN Err("ParseError")
       ELSE [ok |-> TRUE, val |-> DecVal(SubSeq(s, 1, k)), rest |-> SubSeq(s, k + 1, Len(s))]

\* Item::Numeric for an unsigned field of the given width.
parse_numeric(s, width) == scan_number(trim_start(s), width)

\* Item::Numeric(Year): width 4, or any width after an explicit sign.
parse_year(s) ==
    LET t == trim_start(s)
    IN IF t # <<>> /\ Head(t) = "-"
       THEN LET r == scan_number(Tail(t), Len(t))
            IN IF r.ok THEN [r EXCEPT !.val = 0 - r.val] ELSE r
       ELSE IF t # <<>> /\ Head(t) = "+" THEN scan_number(Tail(t), Len(t))
       ELSE scan_number(t, 4)

\* Item::Literal: the rest after the literal character, or an error.
parse_literal(s, c) ==
    IF s # <<>> /\ Head(s) = c THEN [ok |-> TRUE, rest |-> Tail(s)] ELSE Err("ParseError")

IsLeapYear(y) == (y % 4 = 0 /\ y % 100 # 0) \/ y % 400 = 0

DaysInMonth(y, m) ==
    IF m = 2 THEN (IF IsLeapYear(y) THEN 29 ELSE 28)
    ELSE IF m \in {4, 6, 9, 11} THEN 30 ELSE 31

\* Mutant: the day is checked against 31 whatever the month.
ValidDate_anyMonth31(y, m, d) ==
    /\ y >= -262143 /\ y <= 262142
    /\ m >= 1 /\ m <= 12
    /\ d >= 1 /\ d <= 31

\* NaiveDate::from_ymd_opt
ValidDate(y, m, d) ==
    /\ y >= -262143 /\ y <= 262142
    /\ m >= 1 /\ m <= 12
    /\ d >= 1 /\ d <= DaysInMonth(y, m)

\* NaiveDate::parse_from_str(s, "%Y-%m-%d")
NaiveDate_parse(s) ==
    LET y == parse_year(s)
    IN IF ~y.ok THEN Err("ParseError") ELSE
       LET l1 == parse_literal(y.rest, "-")
       IN IF ~l1.ok THEN Err("ParseError") ELSE
          LET m == parse_numeric(l1.rest, 2)
          IN IF ~m.ok THEN Err("ParseError") ELSE
             LET l2 == parse_literal(m.rest, "-")
             IN IF ~l2.ok THEN Err("ParseError") ELSE
                LET d == parse_numeric(l2.rest, 2)
                IN IF ~d.ok \/ d.rest # <<>> THEN Err("ParseError")
                   ELSE IF ~ValidDate(y.val, m.val, d.val) THEN Err("ParseError")
                   ELSE Ok([year |-> y.val, month |-> m.val, day |-> d.val])

\* NaiveTime::parse_from_str(s, "%H:%M:%S"); second 60 is a leap second,
\* kept as second 59 with the leap flag.
NaiveTime_parse(s) ==
    LET h == parse_numeric(s, 2)
    IN IF ~h.ok THEN Err("ParseError") ELSE
       LET l1 == parse_literal(h.rest, ":")
       IN IF ~l1.ok THEN Err("ParseError") ELSE
          LET m == parse_numeric(l1.rest, 2)
          IN IF ~m.ok THEN Err("ParseError") ELSE
             LET l2 == parse_literal(m.rest, ":")
             IN IF ~l2.ok THEN Err("ParseError") ELSE
                LET sec == parse_numeric(l2.rest, 2)
                IN IF ~sec.ok \/ sec.rest # <<>> THEN Err("ParseError")
                   ELSE IF h.val > 23 \/ m.val > 59 \/ sec.val > 60 THEN Err("ParseError")
                   ELSE Ok([hour |-> h.val, minute |-> m.val,
                            second |-> IF sec.val = 60 THEN 59 ELSE sec.val,
                            leap |-> sec.val = 60])

\* time_str.matches(':').count()
RECURSIVE CountColons(_)
CountColons(s) ==
    IF s = <<>> THEN 0
    ELSE (IF Head(s) = ":" THEN 1 ELSE 0) + CountColons(Tail(s))

\* NaiveDateTime::new followed by DateTime::<Utc>::from_naive_utc_and_offset:
\* the fields are taken as UTC, unchanged.
from_naive_utc(d, t) ==
    [year |-> d.year, month |-> d.month, day |-> d.day,
     hour |-> t.hour, minute |-> t.minute, second |-> t.second, leap |-> t.leap]

\* Mutant: the time is parsed as HH:MM:SS whatever its colon count.
parse_user_datetime_asis(d, t) ==
    LET dr == NaiveDate_parse(d)
    IN IF ~dr.ok THEN Err("ParseError") ELSE
       LET tr == NaiveTime_parse(t)
       IN IF ~tr.ok THEN Err("ParseError")
          ELSE Ok(from_naive_utc(dr.val, tr.val))

\* parse_user_datetime, lines 32-54
parse_user_datetime(d, t) ==
    LET dr == NaiveDate_parse(d)
    IN IF ~dr.ok THEN Err("ParseError") ELSE
       LET tr == IF CountColons(t) = 1
                 THEN NaiveTime_parse(t \o <<":", "0", "0">>)
                 ELSE NaiveTime_parse(t)
       IN IF ~tr.ok THEN Err("ParseError")
          ELSE Ok(from_naive_utc(dr.val, tr.val))


---------------------------------------------------------------------------
(* Number parsing of the standard library. *)

\* str::parse::<u64>: an optional leading '+', then one or more digits.
\* (Texts within MaxEnvLen never exceed u64::MAX.)
parse_u64(s) ==
    LET d == IF s # <<>> /\ Head(s) = "+" THEN Tail(s) ELSE s
    IN IF d = <<>> \/ \E i \in 1..Len(d) : d[i] \notin Digits
       THEN Err("ParseIntError")
       ELSE Ok(DecVal(d))

\* str::parse::<f64>, for texts made of signs, digits, letters and blanks:
\* an optional sign followed by one or more digits is that number (in Hz);
\* no whitespace is skipped. The value is kept as an integer.
parse_f64(s) ==
    LET neg == s # <<>> /\ Head(s) = "-"
        d == IF s # <<>> /\ Head(s) \in {"+", "-"} THEN Tail(s) ELSE s
    IN IF d = <<>> \/ \E i \in 1..Len(d) : d[i] \notin Digits
       THEN Err("ParseFloatError")
       ELSE Ok(IF neg THEN 0 - DecVal(d) ELSE DecVal(d))

---------------------------------------------------------------------------
(* client.rs: ApiClient. *)

DefaultBaseUrl == "http://localhost:3000"
DefaultTimeoutText == <<"3", "0">>
DefaultTimeout == 30

\* std::env::var after dotenv::dotenv().ok(): a .env entry is used only when
\* the process environment does not set the variable.
env_var(penv, denv, name) ==
    IF penv[name].some THEN penv[name] ELSE denv[name]

\* Mutant: an unparsable API_TIMEOUT_SECONDS is propagated as an error
\* instead of falling back to the default.
ApiClient_new_strict(penv, denv, built) ==
    LET url == env_var(penv, denv, "API_BASE_URL")
        base_url == IF url.some THEN url.v ELSE DefaultBaseUrl
        text == env_var(penv, denv, "API_TIMEOUT_SECONDS")
        secs == parse_u64(IF text.some THEN text.v ELSE DefaultTimeoutText)
    IN IF ~secs.ok
       THEN [ok |-> FALSE, err |-> "ConfigurationError", source |-> "env"]
       ELSE IF built
       THEN Ok([base_url |-> base_url, timeout |-> secs.val])
       ELSE [ok |-> FALSE, err |-> "HttpError", source |-> "builder"]

\* ApiClient::new; `built` is whether reqwest's ClientBuilder::build succeeds.
ApiClient_new(penv, denv, built) ==
    LET url == env_var(penv, denv, "API_BASE_URL")
        base_url == IF url.some THEN url.v ELSE DefaultBaseUrl
        text == env_var(penv, denv, "API_TIMEOUT_SECONDS")
        secs == parse_u64(IF text.some THEN text.v ELSE DefaultTimeoutText)
        timeout_seconds == IF secs.ok THEN secs.val ELSE DefaultTimeout
    IN IF built
       THEN Ok([base_url |-> base_url, timeout |-> timeout_seconds])
       ELSE [ok |-> FALSE, err |-> "HttpError", source |-> "builder"]

\* impl fmt::Display for CliError
CliError_fmt(e) ==
    CASE e = "HttpError" -> "HTTP request failed"
      [] e = "ConfigurationError" -> "Configuration error"

\* reqwest's IntoUrl on the request URL: a URL without a scheme is refused.
ParsesAsUrl(u) == u \notin {"gs.example/jobs"}

\* StatusCode::is_success
is_success(status) == status >= 200 /\ status <= 299

\* Response::json::<ApiResponse>: `status` is required, `message` optional.
deserialize(body) ==
    IF body.json /\ body.status # NoValue
    THEN Ok([status |-> body.status, message |-> body.message])
    ELSE [ok |-> FALSE, err |-> "HttpError", source |-> "decode"]

\* What the network and the remote API may do with one request.
NetOutcomes ==
    {[kind |-> "connect_error", processed |-> FALSE, status |-> 0, body |-> NoValue]}
    \cup {[kind |-> "timeout", processed |-> p, status |-> 0, body |-> NoValue] :
            p \in BOOLEAN}
    \cup {[kind |-> "response", processed |-> TRUE, status |-> st, body |-> b] :
            st \in {200, 404, 500},
            b \in {[json |-> TRUE, status |-> "ok", message |-> NoValue],
                   [json |-> TRUE, status |-> "scheduled", message |-> "queued"],
                   [json |-> TRUE, status |-> NoValue, message |-> "queued"],
                   [json |-> FALSE, status |-> NoValue, message |-> NoValue]}}

\* Mutant: the status check is missing, so any response whose body
\* deserializes is returned as a success.
ApiClient_add_job_nostatus(self, j, net) ==
    LET url == self.base_url \o "/jobs"
        req == [method |-> "POST", url |-> url,
                content_type |-> "application/json", body |-> j]
    IN IF ~ParsesAsUrl(url)
       THEN [result |-> [ok |-> FALSE, err |-> "HttpError", source |-> "builder"],
             sent |-> <<>>, accepted |-> FALSE]
       ELSE IF net.kind # "response"
       THEN [result |-> [ok |-> FALSE, err |-> "HttpError", source |-> net.kind],
             sent |-> <<req>>, accepted |-> net.processed]
       ELSE [result |-> deserialize(net.body), sent |-> <<req>>,
             accepted |-> is_success(net.status)]

\* ApiClient::add_job: the result, the requests it put on the wire and
\* whether the remote API processed the request and answered 2xx.
ApiClient_add_job(self, j, net) ==
    LET url == self.base_url \o "/jobs"
        req == [method |-> "POST", url |-> url,
                content_type |-> "application/json", body |-> j]
    IN IF ~ParsesAsUrl(url)
       THEN [result |-> [ok |-> FALSE, err |-> "HttpError", source |-> "builder"],
             sent |-> <<>>, accepted |-> FALSE]
       ELSE IF net.kind # "response"
       THEN [result |-> [ok |-> FALSE, err |-> "HttpError", source |-> net.kind],
             sent |-> <<req>>, accepted |-> net.processed]
       ELSE IF ~is_success(net.status)
       THEN [result |-> [ok |-> FALSE, err |-> "HttpError", source |-> "status"],
             sent |-> <<req>>, accepted |-> FALSE]
       ELSE [result |-> deserialize(net.body), sent |-> <<req>>, accepted |-> TRUE]

---------------------------------------------------------------------------
(* main.rs: the inputs of one invocation. *)

\* What a Text prompt returns: the operator's line, or an InquireError
\* (the prompt was cancelled or interrupted).
PromptResults(answers) == {Ok(a) : a \in answers} \cup {Err("InquireError")}

DateAnswers ==
    {<<"2", "0", "2", "5", "-", "1", "0", "-", "0", "2">>,
     <<"2", "0", "2", "5", "-", "1", "3", "-", "4", "0">>}

TimeAnswers ==
    {<<"1", "2", ":", "0", "0">>,
     <<"1", "2", ":", "1", "5", ":", "3", "0">>,
     <<"2", "5", ":", "9", "9">>}

TextAnswers ==
    {<<"I", "S", "S">>, <<" ", "I", "S", "S", " ">>, <<" ">>}

FreqAnswers ==
    {<<"1", "4", "5", "8", "0", "0", "0", "0", "0">>,
     <<"-", "5">>,
     <<"a", "b", "c">>}

BaseUrlEnv == {None, Some("http://gs.example:8080"), Some("gs.example")}
TimeoutEnv ==
    {None, Some(<<"+", "7">>), Some(<<"-", "5">>)}
    \cup {Some(t) : t \in SeqsUpTo({"5", "a"}, MaxEnvLen)}

\* No .env file, or one that sets both variables.
DotEnvFiles ==
    {[API_BASE_URL |-> None, API_TIMEOUT_SECONDS |-> None],
     [API_BASE_URL |-> Some("http://10.0.0.7:3000"), API_TIMEOUT_SECONDS |-> Some(<<"7">>)]}

\* The prompts of collect_job_info, in the order the code shows them.
PromptOrder ==
    <<"Start date", "Start time", "End date", "End time", "Satellite name",
      "TLE Line 1", "TLE Line 2", "RX frequency", "TX frequency">>

NextPrompt == PromptOrder[Len(shown) + 1]

EmptyInput ==
    [start_datetime |-> None, end_datetime |-> None, tle_data |-> None,
     rx_frequency |-> None, tx_frequency |-> None]

Terminal == {"Success", "Failure"}

Init ==
    /\ pc = "Init"
    /\ trace = <<"Init">>
    /\ procEnv \in [API_BASE_URL : BaseUrlEnv, API_TIMEOUT_SECONDS : TimeoutEnv]
    /\ dotEnv \in DotEnvFiles
    /\ client = None
    /\ shown = <<>>
    /\ date = None
    /\ sat_name = None
    /\ tle_line1 = None
    /\ input = EmptyInput
    /\ job = None
    /\ posts = <<>>
    /\ reply = None
    /\ accepted = FALSE
    /\ response = None
    /\ stderr = None
    /\ exitCode = None
    /\ date_str = <<>>
    /\ time_str = <<>>
    /\ parsed = None

\* main's error arms: eprintln!("<prefix>: {}", e); std::process::exit(1)
Fail(prefix, e) ==
    /\ stderr' = Some([prefix |-> prefix, error |-> e])
    /\ exitCode' = Some(1)
    /\ pc' = "Failure"
    /\ trace' = Append(trace, "Failure")

Goto(phase) ==
    /\ pc' = phase
    /\ trace' = Append(trace, phase)

\* main's arm for a failed ApiClient::new, lines 149-152
InitFail(r) ==
    Fail("Failed to initialize API client",
         [kind |-> r.err, text |-> CliError_fmt(r.err), source |-> r.source])

\* main, lines 147-153
ApiClientNew ==
    /\ pc = "Init"
    /\ \E built \in BOOLEAN :
         LET r == ApiClient_new(procEnv, dotEnv, built)
         IN IF r.ok
            THEN /\ client' = Some(r.val)
                 /\ Goto("CollectFields")
                 /\ UNCHANGED <<stderr, exitCode>>
            ELSE /\ InitFail(r)
                 /\ UNCHANGED client
    /\ UNCHANGED <<procEnv, dotEnv, shown, date, sat_name, tle_line1, input, job,
                   posts, reply, accepted, response, parserVars>>

\* Mutant: the arm prints the error but does not exit, so collection goes on.
CollectFail_noexit(e) ==
    /\ stderr' = Some([prefix |-> "Error collecting input",
                       error |-> [kind |-> e, text |-> e, source |-> "input"]])
    /\ UNCHANGED <<pc, trace, exitCode>>

\* collect_job_info returning Err to main, lines 157-163
CollectFail(e) ==
    Fail("Error collecting input", [kind |-> e, text |-> e, source |-> "input"])

\* get_datetime_input, the date prompt (lines 62-64)
GetDatetimeDate ==
    /\ pc = "CollectFields"
    /\ Len(shown) \in {0, 2}
    /\ shown' = Append(shown, NextPrompt)
    /\ \E answer \in PromptResults(DateAnswers) :
         IF ~answer.ok
         THEN /\ CollectFail(answer.err)
              /\ UNCHANGED date
         ELSE /\ date' = Some(answer.val)
              /\ UNCHANGED <<pc, trace, stderr, exitCode>>
    /\ UNCHANGED <<procEnv, dotEnv, client, sat_name, tle_line1, input, job,
                   posts, reply, accepted, response, parserVars>>

\* get_datetime_input, the time prompt and the parse (lines 66-70)
GetDatetimeTime ==
    /\ pc = "CollectFields"
    /\ Len(shown) \in {1, 3}
    /\ shown' = Append(shown, NextPrompt)
    /\ \E answer \in PromptResults(TimeAnswers) :
         IF ~answer.ok
         THEN /\ CollectFail(answer.err)
              /\ UNCHANGED <<date, input>>
         ELSE LET r == parse_user_datetime(date.v, answer.val)
              IN IF ~r.ok
                 THEN /\ CollectFail(r.err)
                      /\ UNCHANGED <<date, input>>
                 ELSE /\ input' = IF Len(shown) = 1
                                  THEN [input EXCEPT !.start_datetime = Some(r.val)]
                                  ELSE [input EXCEPT !.end_datetime = Some(r.val)]
                      /\ date' = None
                      /\ UNCHANGED <<pc, trace, stderr, exitCode>>
    /\ UNCHANGED <<procEnv, dotEnv, client, sat_name, tle_line1, job,
                   posts, reply, accepted, response, parserVars>>

\* get_tle_input, lines 74-92
TleData(name, line1, line2) ==
    [tle0 |-> trim(name), tle1 |-> trim(line1), tle2 |-> trim(line2)]

GetTleInput ==
    /\ pc = "CollectFields"
    /\ Len(shown) \in {4, 5, 6}
    /\ shown' = Append(shown, NextPrompt)
    /\ \E answer \in PromptResults(TextAnswers) :
         IF ~answer.ok
         THEN /\ CollectFail(answer.err)
              /\ UNCHANGED <<sat_name, tle_line1, input>>
         ELSE /\ UNCHANGED <<pc, trace, stderr, exitCode>>
              /\ CASE Len(shown) = 4 ->
                        /\ sat_name' = Some(answer.val)
                        /\ UNCHANGED <<tle_line1, input>>
                   [] Len(shown) = 5 ->
                        /\ tle_line1' = Some(answer.val)
                        /\ UNCHANGED <<sat_name, input>>
                   [] Len(shown) = 6 ->
                        /\ input' = [input EXCEPT
                                       !.tle_data = Some(TleData(sat_name.v, tle_line1.v,
                                                                 answer.val))]
                        /\ sat_name' = None
                        /\ tle_line1' = None
    /\ UNCHANGED <<procEnv, dotEnv, client, date, job,
                   posts, reply, accepted, response, parserVars>>

\* get_frequency_input, lines 95-101; after the TX frequency
\* collect_job_info returns the UserInput to main.
GetFrequencyInput ==
    /\ pc = "CollectFields"
    /\ Len(shown) \in {7, 8}
    /\ shown' = Append(shown, NextPrompt)
    /\ \E answer \in PromptResults(FreqAnswers) :
         IF ~answer.ok
         THEN /\ CollectFail(answer.err)
              /\ UNCHANGED input
         ELSE LET r == parse_f64(answer.val)
              IN IF ~r.ok
                 THEN /\ CollectFail(r.err)
                      /\ UNCHANGED input
                 ELSE IF Len(shown) = 7
                 THEN /\ input' = [input EXCEPT !.rx_frequency = Some(r.val)]
                      /\ UNCHANGED <<pc, trace, stderr, exitCode>>
                 ELSE /\ input' = [input EXCEPT !.tx_frequency = Some(r.val)]
                      /\ Goto("AssembleRequest")
                      /\ UNCHANGED <<stderr, exitCode>>
    /\ UNCHANGED <<procEnv, dotEnv, client, date, sat_name, tle_line1, job,
                   posts, reply, accepted, response, parserVars>>

\* Mutant: the two frequencies end up in each other's field.
JobRequestDTO_swapped(in) ==
    [start |-> in.start_datetime.v, end |-> in.end_datetime.v, tle |-> in.tle_data.v,
     rx_frequency |-> in.tx_frequency.v, tx_frequency |-> in.rx_frequency.v]

\* submit_job, lines 127-133
JobRequestDTO(in) ==
    [start |-> in.start_datetime.v, end |-> in.end_datetime.v, tle |-> in.tle_data.v,
     rx_frequency |-> in.rx_frequency.v, tx_frequency |-> in.tx_frequency.v]

AssembleRequest ==
    /\ pc = "AssembleRequest"
    /\ job' = Some(JobRequestDTO(input))
    /\ Goto("Submit")
    /\ UNCHANGED <<procEnv, dotEnv, client, shown, date, sat_name, tle_line1, input,
                   posts, reply, accepted, response, stderr, exitCode, parserVars>>

\* Mutant: the arm prints the error but lacks std::process::exit(1), so
\* main returns normally.
SubmitFail_fallthrough(r) ==
    /\ stderr' = Some([prefix |-> "Failed to submit job",
                       error |-> [kind |-> r.err, text |-> CliError_fmt(r.err),
                                  source |-> r.source]])
    /\ exitCode' = Some(0)
    /\ pc' = "Failure"
    /\ trace' = Append(trace, "Failure")

\* Mutant: the arm prints the error and lets the submission run again.
SubmitFail_retry(r) ==
    /\ stderr' = Some([prefix |-> "Failed to submit job",
                       error |-> [kind |-> r.err, text |-> CliError_fmt(r.err),
                                  source |-> r.source]])
    /\ UNCHANGED <<pc, trace, exitCode>>

\* main's arm for a failed submit_job, lines 165-168
SubmitFail(r) ==
    Fail("Failed to submit job",
         [kind |-> r.err, text |-> CliError_fmt(r.err), source |-> r.source])

\* submit_job, lines 137-140, with ApiClient::add_job and main, lines 165-168
SubmitJob ==
    /\ pc = "Submit"
    /\ \E net \in NetOutcomes :
         LET r == ApiClient_add_job(client.v, job.v, net)
         IN /\ posts' = posts \o r.sent
            /\ reply' = IF r.sent = <<>> THEN None ELSE Some(net)
            /\ accepted' = r.accepted
            /\ IF r.result.ok
               THEN /\ response' = Some(r.result.val)
                    /\ exitCode' = Some(0)
                    /\ Goto("Success")
                    /\ UNCHANGED stderr
               ELSE /\ SubmitFail(r.result)
                    /\ UNCHANGED response
    /\ UNCHANGED <<procEnv, dotEnv, client, shown, date, sat_name, tle_line1, input,
                   job, parserVars>>

Next ==
    \/ ApiClientNew
    \/ GetDatetimeDate
    \/ GetDatetimeTime
    \/ GetTleInput
    \/ GetFrequencyInput
    \/ AssembleRequest
    \/ SubmitJob

Spec == Init /\ [][Next]_vars

---------------------------------------------------------------------------
(* parse_user_datetime on its own, over enumerated date and time texts. *)

DateTexts ==
    SeqsUpTo({"1", "3", "-", " "}, MaxDateLen)
    \cup {y \o <<s>> \o m \o <<s>> \o d :
            y \in {<<"2", "0", "2", "5">>, <<"2", "0", "2", "4">>, <<"2", "5">>,
                   <<"+", "1", "2", "0", "2", "5">>, <<"2", "0", "2", "5", "0">>},
            s \in {"-", "/"},
            m \in {<<"0", "2">>, <<"2">>, <<"1", "3">>, <<"0", "0">>, <<" ", "2">>},
            d \in {<<"0", "2">>, <<"2">>, <<"2", "9">>, <<"3", "0">>, <<"4", "0">>,
                   <<"0", "2", " ">>}}

TimeTexts ==
    SeqsUpTo({"1", "6", ":", " "}, MaxTimeLen)
    \cup {h \o <<":">> \o m \o t :
            h \in {<<"1", "2">>, <<"2">>, <<"2", "5">>, <<"2", "3">>},
            m \in {<<"0", "0">>, <<"5">>, <<"5", "9">>, <<"9", "9">>},
            t \in {<<>>, <<":", "0", "0">>, <<":", "3", "0">>, <<":", "6", "0">>,
                   <<":", "6", "1">>, <<":", "0", "0", ":", "0", "0">>,
                   <<":", "3", "0", "0">>, <<" ">>}}

ProbeDates ==
    {<<"2", "0", "2", "5", "-", "1", "0", "-", "0", "2">>,
     <<"2", "0", "2", "5", "-", "1", "3", "-", "4", "0">>}

ProbeTimes ==
    {<<"1", "2", ":", "0", "0">>, <<"1", "2", ":", "0", "0", ":", "3", "0">>,
     <<"2", "5", ":", "9", "9">>}

InitParser ==
    /\ pc = "Init"
    /\ trace = <<"Init">>
    /\ procEnv = [API_BASE_URL |-> None, API_TIMEOUT_SECONDS |-> None]
    /\ dotEnv = [API_BASE_URL |-> None, API_TIMEOUT_SECONDS |-> None]
    /\ client = None
    /\ shown = <<>>
    /\ date = None
    /\ sat_name = None
    /\ tle_line1 = None
    /\ input = EmptyInput
    /\ job = None
    /\ posts = <<>>
    /\ reply = None
    /\ accepted = FALSE
    /\ response = None
    /\ stderr = None
    /\ exitCode = None
    /\ \/ date_str \in DateTexts /\ time_str \in ProbeTimes
       \/ date_str \in ProbeDates /\ time_str \in TimeTexts
    /\ parsed = None

ParseUserDatetime ==
    /\ parsed = None
    /\ parsed' = Some(parse_user_datetime(date_str, time_str))
    /\ UNCHANGED <<mainVars, date_str, time_str>>

NextParser == ParseUserDatetime

SpecParser == InitParser /\ [][NextParser]_vars

---------------------------------------------------------------------------
(* The flow of one invocation. *)

SuccessPath == <<"Init", "CollectFields", "AssembleRequest", "Submit", "Success">>

\* A prefix of the success path, or such a prefix cut short by Failure after
\* initialization, collection or submission.
IsLegalTrace(t) ==
    \/ \E k \in 1..5 : t = SubSeq(SuccessPath, 1, k)
    \/ \E k \in {1, 2, 4} : t = Append(SubSeq(SuccessPath, 1, k), "Failure")

PhaseInv ==
    /\ IsLegalTrace(trace)
    /\ pc = trace[Len(trace)]
    /\ pc = "Failure" => exitCode = Some(1) /\ stderr # None
    /\ pc = "Success" <=> exitCode = Some(0)
    /\ pc \notin Terminal => exitCode = None /\ stderr = None

\* C1: the phases are entered only in the order Init, CollectFields,
\* AssembleRequest, Submit, then Success or Failure, none twice and none
\* skipped; a failure leads directly to a terminal state with a non-zero exit
\* code; exit code 0 comes only with Success, after Submit; and no step is
\* ever taken from a terminal state.
C1_PhaseOrder == []PhaseInv /\ [][pc \notin Terminal]_vars

C1_Witness ==
    /\ pc = "Success"
    /\ trace = SuccessPath
    /\ exitCode = Some(0)

---------------------------------------------------------------------------
(* Submission. *)

InitFailed == stderr # None /\ stderr.v.prefix = "Failed to initialize API client"
CollectFailed == stderr # None /\ stderr.v.prefix = "Error collecting input"
SubmitFailed == stderr # None /\ stderr.v.prefix = "Failed to submit job"

\* C2, as stated: in every terminal state the job was accepted by the remote
\* API and the invocation reports success, or the job was not accepted and
\* the invocation reports failure; no Failure follows an accepted POST.
C2_NoPartialSuccess ==
    pc \in Terminal =>
        \/ accepted /\ exitCode = Some(0)
        \/ ~accepted /\ exitCode = Some(1)

\* C2, amended: success is reported only when one POST was sent, the remote
\* API accepted it with a success status and the body deserialized; when no
\* POST was accepted the invocation ends in Failure; a Failure after an
\* accepted POST happens exactly when the 2xx body does not deserialize or
\* the timeout fired after the server processed the request.
C2_SuccessImpliesAccepted ==
    pc \in Terminal =>
        /\ exitCode = Some(0) =>
              /\ accepted
              /\ Len(posts) = 1
              /\ reply # None /\ reply.v.kind = "response" /\ is_success(reply.v.status)
              /\ response # None /\ response.v.status = reply.v.body.status
        /\ ~accepted => exitCode = Some(1)
        /\ (accepted /\ exitCode = Some(1)) =>
              /\ SubmitFailed
              /\ stderr.v.error.source \in {"decode", "timeout"}

C2_Witness ==
    /\ pc = "Failure"
    /\ accepted
    /\ Len(posts) = 1
    /\ reply.v.kind = "response" /\ reply.v.status = 200
    /\ stderr.v.error.source = "decode"

---------------------------------------------------------------------------
(* Field collection. *)

\* Prompt k was shown and answered without error.
Collected(k) == Len(shown) > k \/ (Len(shown) = k /\ ~CollectFailed)

CollectInv ==
    /\ Len(shown) <= Len(PromptOrder)
    /\ shown = SubSeq(PromptOrder, 1, Len(shown))
    /\ CollectFailed =>
          /\ pc = "Failure"
          /\ trace = <<"Init", "CollectFields", "Failure">>
          /\ Len(shown) >= 1
          /\ job = None
          /\ posts = <<>>
    /\ input.start_datetime.some <=> Collected(2)
    /\ input.end_datetime.some <=> Collected(4)
    /\ input.tle_data.some <=> Collected(7)
    /\ input.rx_frequency.some <=> Collected(8)
    /\ input.tx_frequency.some <=> Collected(9)
    /\ (job # None \/ posts # <<>>) => Collected(9)

\* C4: the prompts are shown in the fixed order start date, start time, end
\* date, end time, satellite name, TLE line 1, TLE line 2, RX, TX, each at
\* most once; at the first aborted prompt or failed parse the invocation
\* fails, no later prompt is shown, no JobRequest is assembled and nothing
\* is sent; a request is sent only when all nine were collected.
C4_HaltAtFirstFailure == []CollectInv /\ [][CollectFailed => shown' = shown]_vars

C4_Witness ==
    /\ CollectFailed
    /\ stderr.v.error.kind = "ParseError"
    /\ Len(shown) = 4
    /\ input.start_datetime.some
    /\ ~input.end_datetime.some
    /\ pc = "Failure"

\* C5: no job is assembled or submitted whose tle0, tle1 or tle2 is the
\* empty string.
C5_TleNonEmpty ==
    job # None =>
        /\ job.v.tle.tle0 # <<>>
        /\ job.v.tle.tle1 # <<>>
        /\ job.v.tle.tle2 # <<>>

\* C6: a failure to construct the API client is reported as a
\* ConfigurationError and ends the process with a non-zero exit code before
\* any field is prompted for.
C6_ConfigurationError ==
    InitFailed =>
        /\ stderr.v.error.kind = "ConfigurationError"
        /\ exitCode = Some(1)
        /\ pc = "Failure"
        /\ shown = <<>>

---------------------------------------------------------------------------
(* Request assembly. *)

\* C9: the JobRequest carries exactly the collected start, end, orbital
\* element set, rx and tx, each in its own role; it exists only once all
\* fields are collected; what is posted is that JobRequest, at most once;
\* and between the end of collection and the submission nothing (no ordering
\* check) can fail.
C9_PureAssembly ==
    /\ job # None =>
          /\ Collected(9)
          /\ job.v = [start |-> input.start_datetime.v,
                      end |-> input.end_datetime.v,
                      tle |-> input.tle_data.v,
                      rx_frequency |-> input.rx_frequency.v,
                      tx_frequency |-> input.tx_frequency.v]
    /\ Len(posts) <= 1
    /\ \A i \in 1..Len(posts) : job # None /\ posts[i].body = job.v
    /\ Collected(9) =>
          /\ pc \in {"AssembleRequest", "Submit", "Success", "Failure"}
          /\ pc # "AssembleRequest" => job # None
          /\ pc = "Failure" => SubmitFailed

\* A window whose start (12:15:30) is after its end (12:00:00) was posted.
C9_Witness ==
    /\ Len(posts) = 1
    /\ posts[1].body.start.year = posts[1].body.end.year
    /\ posts[1].body.start.month = posts[1].body.end.month
    /\ posts[1].body.start.day = posts[1].body.end.day
    /\ posts[1].body.start.hour = posts[1].body.end.hour
    /\ posts[1].body.start.minute > posts[1].body.end.minute
    /\ posts[1].body.rx_frequency # posts[1].body.tx_frequency
    /\ pc = "Success"

---------------------------------------------------------------------------
(* Client construction. *)

AllDigits(s) == s # <<>> /\ \A i \in 1..Len(s) : s[i] \in Digits

\* The timeout a text stands for: its value when it is an unsigned decimal
\* integer (a leading '+' allowed), 30 seconds otherwise or when unset.
ExpectedTimeout(text) ==
    IF ~text.some THEN 30
    ELSE IF AllDigits(text.v) THEN DecVal(text.v)
    ELSE IF text.v # <<>> /\ Head(text.v) = "+" /\ AllDigits(Tail(text.v))
    THEN DecVal(Tail(text.v))
    ELSE 30

GivenEnv(name) == IF procEnv[name].some THEN procEnv[name] ELSE dotEnv[name]

ClientInv ==
    /\ client # None =>
          /\ client.v.base_url = IF GivenEnv("API_BASE_URL").some
                                 THEN GivenEnv("API_BASE_URL").v
                                 ELSE "http://localhost:3000"
          /\ client.v.timeout = ExpectedTimeout(GivenEnv("API_TIMEOUT_SECONDS"))
    /\ (pc # "Init" /\ client = None) =>
          /\ InitFailed
          /\ stderr.v.error.source = "builder"
    /\ \A i \in 1..Len(posts) : posts[i].url = client.v.base_url \o "/jobs"

\* C10: whatever API_BASE_URL and API_TIMEOUT_SECONDS are (unset, valid, or
\* a non-integer timeout), construction fails only when the HTTP client
\* cannot be built; the client gets the given base URL or
\* http://localhost:3000, and the given timeout or 30 seconds; the client is
\* fixed at construction and the POST goes to its base URL.
C10_EnvDefaults == []ClientInv /\ [][client # None => client' = client]_vars

C10_Witness ==
    /\ procEnv = [API_BASE_URL |-> None, API_TIMEOUT_SECONDS |-> Some(<<"5", "a">>)]
    /\ dotEnv = [API_BASE_URL |-> None, API_TIMEOUT_SECONDS |-> None]
    /\ client = Some([base_url |-> "http://localhost:3000", timeout |-> 30])
    /\ Len(posts) = 1
    /\ posts[1].url = "http://localhost:3000/jobs"

---------------------------------------------------------------------------
(* The DateTime parser. *)

\* The texts of exactly the form YYYY-MM-DD, HH:MM and HH:MM:SS.
StrictDate(s) ==
    /\ Len(s) = 10
    /\ s[5] = "-" /\ s[8] = "-"
    /\ \A i \in {1, 2, 3, 4, 6, 7, 9, 10} : s[i] \in Digits

StrictHM(s) ==
    /\ Len(s) = 5
    /\ s[3] = ":"
    /\ \A i \in {1, 2, 4, 5} : s[i] \in Digits

StrictHMS(s) ==
    /\ Len(s) = 8
    /\ s[3] = ":" /\ s[6] = ":"
    /\ \A i \in {1, 2, 4, 5, 7, 8} : s[i] \in Digits

\* The length of a month of the proleptic Gregorian calendar.
MonthLength(y, m) ==
    IF m = 2 /\ ((y % 4 = 0 /\ y % 100 # 0) \/ y % 400 = 0) THEN 29
    ELSE <<31, 28, 31, 30, 31, 30, 31, 31, 30, 31, 30, 31>>[m]

OnCalendar(y, m, d) == m \in 1..12 /\ d >= 1 /\ d <= MonthLength(y, m)

\* The fields of s between separators.
RECURSIVE Split(_, _)
Split(s, sep) ==
    IF \A i \in 1..Len(s) : s[i] # sep THEN <<s>>
    ELSE LET i == CHOOSE k \in 1..Len(s) :
                     s[k] = sep /\ \A j \in 1..(k - 1) : s[j] # sep
         IN <<SubSeq(s, 1, i - 1)>> \o Split(SubSeq(s, i + 1, Len(s)), sep)

\* A field of at most w digits, possibly after whitespace, and its value.
NumField(x, w) == AllDigits(trim_start(x)) /\ Len(trim_start(x)) <= w
NumVal(x) == DecVal(trim_start(x))

Colons(s) == Cardinality({i \in 1..Len(s) : s[i] = ":"})

StrictDateOK(s) ==
    /\ StrictDate(s)
    /\ OnCalendar(DecVal(SubSeq(s, 1, 4)), DecVal(SubSeq(s, 6, 7)), DecVal(SubSeq(s, 9, 10)))

StrictTimeOK(s) ==
    /\ StrictHM(s) \/ StrictHMS(s)
    /\ DecVal(SubSeq(s, 1, 2)) <= 23
    /\ DecVal(SubSeq(s, 4, 5)) <= 59
    /\ StrictHMS(s) => DecVal(SubSeq(s, 7, 8)) <= 60

\* The timestamp whose fields are those of a date and a time, taken as UTC.
Stamp(d, t) ==
    [year |-> d.year, month |-> d.month, day |-> d.day,
     hour |-> t.hour, minute |-> t.minute, second |-> t.second, leap |-> t.leap]

\* C7: a time with exactly one colon is parsed as that text followed by
\* ":00" in the format HH:MM:SS, any other time is parsed unchanged; the
\* result carries the date's and the time's fields as they are (UTC, no
\* conversion); every valid YYYY-MM-DD + HH:MM pair yields the timestamp of
\* its literal fields with seconds = 0, and every valid YYYY-MM-DD +
\* HH:MM:SS pair the timestamp of its literal fields.
C7_ColonRule ==
    parsed # None =>
        LET r == parsed.v
            d == NaiveDate_parse(date_str)
            t == IF Colons(time_str) = 1
                 THEN NaiveTime_parse(time_str \o <<":", "0", "0">>)
                 ELSE NaiveTime_parse(time_str)
        IN /\ r.ok <=> (d.ok /\ t.ok)
           /\ r.ok => r.val = Stamp(d.val, t.val)
           /\ (r.ok /\ Colons(time_str) = 1) => r.val.second = 0 /\ ~r.val.leap
           /\ (StrictDateOK(date_str) /\ StrictTimeOK(time_str)) =>
                 /\ r.ok
                 /\ r.val.year = DecVal(SubSeq(date_str, 1, 4))
                 /\ r.val.month = DecVal(SubSeq(date_str, 6, 7))
                 /\ r.val.day = DecVal(SubSeq(date_str, 9, 10))
                 /\ r.val.hour = DecVal(SubSeq(time_str, 1, 2))
                 /\ r.val.minute = DecVal(SubSeq(time_str, 4, 5))
                 /\ StrictHM(time_str) => r.val.second = 0
                 /\ (StrictHMS(time_str) /\ DecVal(SubSeq(time_str, 7, 8)) <= 59) =>
                       r.val.second = DecVal(SubSeq(time_str, 7, 8))

C7_Witness ==
    /\ parsed # None
    /\ date_str = <<"2", "0", "2", "5", "-", "1", "0", "-", "0", "2">>
    /\ time_str = <<"1", "2", ":", "0", "0">>
    /\ parsed.v = Ok([year |-> 2025, month |-> 10, day |-> 2,
                      hour |-> 12, minute |-> 0, second |-> 0, leap |-> FALSE])

LenientDate(s) ==
    LET t == trim_start(s)
        signed == t # <<>> /\ Head(t) \in {"+", "-"}
        f == Split(IF signed THEN Tail(t) ELSE t, "-")
    IN /\ Len(f) = 3
       /\ AllDigits(f[1]) /\ (signed \/ Len(f[1]) <= 4)
       /\ NumField(f[2], 2) /\ NumField(f[3], 2)
       /\ OnCalendar(DecVal(f[1]), NumVal(f[2]), NumVal(f[3]))

LenientDateVal(s) ==
    LET t == trim_start(s)
        signed == t # <<>> /\ Head(t) \in {"+", "-"}
        f == Split(IF signed THEN Tail(t) ELSE t, "-")
    IN [year |-> IF t # <<>> /\ Head(t) = "-" THEN 0 - DecVal(f[1]) ELSE DecVal(f[1]),
        month |-> NumVal(f[2]), day |-> NumVal(f[3])]

LenientTime(s) ==
    LET f == Split(s, ":")
    IN /\ Len(f) \in {2, 3}
       /\ \A i \in 1..Len(f) : NumField(f[i], 2)
       /\ NumVal(f[1]) <= 23 /\ NumVal(f[2]) <= 59
       /\ Len(f) = 3 => NumVal(f[3]) <= 60

LenientTimeVal(s) ==
    LET f == Split(s, ":")
        sec == IF Len(f) = 3 THEN NumVal(f[3]) ELSE 0
    IN [hour |-> NumVal(f[1]), minute |-> NumVal(f[2]),
        second |-> IF sec = 60 THEN 59 ELSE sec, leap |-> sec = 60]

===========================================================================
